---- MODULE Spec2Model ----
(***************************************************************************)
(* Model of keiya01/peek-poke-example (src/src/main.rs): a DisplayList      *)
(* builder that pokes tagged items into a byte vector, the DisplayListIter *)
(* that peeks them back, and the main/backend thread pair that exchanges   *)
(* display lists over two unbounded channels.                              *)
(*                                                                         *)
(* Bytes are naturals 0..255.  A slice of the payload is a record          *)
(* [lo, hi] of 0-based offsets, lo inclusive and hi exclusive.  An f32 is  *)
(* its IEEE-754 bit pattern written as four bytes, most significant first; *)
(* poking writes them little-endian.                                       *)
(***************************************************************************)
EXTENDS Integers, Sequences, FiniteSets, TLC

(* ------------------------------ bounds -------------------------------- *)
\* MaxOps: push_item and push_list calls on one display list; MaxListLen:
\* length of an array given to push_list; MaxStreams: display lists sent
\* before Close.
MaxOps == 3
MaxListLen == 2
MaxStreams == 2

(* ------------------------- program constants -------------------------- *)
UsizeSize == 8
RectItemSize == 16
TagSize == 1
NumVariants == 4

\* Largest usize the model represents exactly; larger peeked values saturate
\* here.  Every comparison the code makes is against a slice length or an
\* item count far below it.
UsizeSat == 2^30

(* ------------------------------- values ------------------------------- *)
F0 == <<0, 0, 0, 0>>
F100 == <<66, 200, 0, 0>>
F500 == <<67, 250, 0, 0>>
F1000 == <<68, 122, 0, 0>>

RectItem(minx, miny, maxx, maxy) == <<minx, miny, maxx, maxy>>

RectDefault == RectItem(F0, F0, F0, F0)
RectA == RectItem(F100, F100, F500, F500)
RectB == RectItem(F500, F500, F1000, F1000)

TagRect == 0
TagList == 1
TagListItem == 2
TagNone == 3

Rect(r) == [tag |-> TagRect, rect |-> r]
List == [tag |-> TagList, rect |-> RectDefault]
ListItem == [tag |-> TagListItem, rect |-> RectDefault]
None == [tag |-> TagNone, rect |-> RectDefault]

\* The items the modelled client passes to push_item.
TopItems == {Rect(RectA), Rect(RectB), Rect(RectDefault), List, None}

\* The arrays the modelled client passes to push_list: n ListItems for every
\* n up to MaxListLen, and one array of mixed variants.
Repeat(x, n) == [i \in 1..n |-> x]
MixedList == <<Rect(RectA), ListItem>>
Lists ==
    {Repeat(ListItem, n) : n \in 0..MaxListLen}
        \cup {l \in {MixedList} : Len(l) <= MaxListLen}

(* ------------------------------ slices -------------------------------- *)
Slice(lo, hi) == [lo |-> lo, hi |-> hi]
SliceLen(s) == s.hi - s.lo
WholeSlice(buf) == Slice(0, Len(buf))
EmptySlice == Slice(0, 0)

\* The byte at 0-based offset i.  No reachable step of the program reads at
\* or past Len(buf) (see C2_BoundsSafety); the ELSE branch only keeps the
\* operator total.
ByteAt(buf, i) == IF i < Len(buf) THEN buf[i + 1] ELSE 0

(* ----------------------------- peek_poke ------------------------------ *)
\* <DisplayListItem as Poke>::max_size(): the tag plus the largest variant.
MaxSize == TagSize + RectItemSize

Zeros(n) == [i \in 1..n |-> 0]

\* f32::poke_into / peek_from: the four bytes in little-endian order.
PokeF32(f) == <<f[4], f[3], f[2], f[1]>>
PeekF32(buf, at) ==
    <<ByteAt(buf, at + 3), ByteAt(buf, at + 2), ByteAt(buf, at + 1), ByteAt(buf, at)>>

PokeRectItem(r) == PokeF32(r[1]) \o PokeF32(r[2]) \o PokeF32(r[3]) \o PokeF32(r[4])
PeekRectItem(buf, at) ==
    RectItem(PeekF32(buf, at), PeekF32(buf, at + 4),
             PeekF32(buf, at + 8), PeekF32(buf, at + 12))

\* usize::poke_into: eight bytes, little-endian.
PokeUsize(n) ==
    <<n % 256, (n \div 256) % 256, (n \div 65536) % 256, (n \div 16777216) % 256,
      0, 0, 0, 0>>

\* usize::peek_from: eight bytes, little-endian, saturating at UsizeSat.
PeekUsize(buf, at) ==
    IF \/ \E k \in 4..7 : ByteAt(buf, at + k) # 0
       \/ ByteAt(buf, at + 3) >= 64
    THEN UsizeSat
    ELSE ByteAt(buf, at) + 256 * ByteAt(buf, at + 1) + 65536 * ByteAt(buf, at + 2)
         + 16777216 * ByteAt(buf, at + 3)

\* #[derive(PeekPoke)] on DisplayListItem: a one-byte variant index, then the
\* variant's fields.
PokeItem(item) ==
    IF item.tag = TagRect THEN <<item.tag>> \o PokeRectItem(item.rect) ELSE <<item.tag>>

EncodedSize(item) == Len(PokeItem(item))

\* poke_into_vec: append the encoding of one value.
PokeIntoVec(bytes, vec) == vec \o bytes

\* poke_extend_vec: append the encoding of every element, in order.
RECURSIVE PokeExtendVec(_, _)
PokeExtendVec(items, vec) ==
    IF items = <<>> THEN vec
    ELSE PokeExtendVec(Tail(items), PokeIntoVec(PokeItem(Head(items)), vec))

\* ensure_red_zone::<T>: append T::max_size() zero bytes.
EnsureRedZone(maxSize, vec) == vec \o Zeros(maxSize)

\* Mutant of PokeInplaceSlice: the write starts one byte early.
PokeInplaceSlice_OneByteEarly(bytes, vec, at) ==
    [i \in 1..Len(vec) |->
        IF i > at - 1 /\ i <= at - 1 + Len(bytes) THEN bytes[i - (at - 1)] ELSE vec[i]]

\* poke_inplace_slice: overwrite the bytes at 0-based offset `at`.
PokeInplaceSlice(bytes, vec, at) ==
    [i \in 1..Len(vec) |->
        IF i > at /\ i <= at + Len(bytes) THEN bytes[i - at] ELSE vec[i]]

\* peek_from_slice::<DisplayListItem>: asserts max_size < len, then reads the
\* tag and the fields; an unknown tag panics.  readHi is one past the last
\* byte read.
PeekItemFromSlice(buf, src) ==
    IF ~(MaxSize < SliceLen(src))
    THEN [ok |-> FALSE, item |-> None, rest |-> src, readHi |-> src.lo]
    ELSE LET tag == ByteAt(buf, src.lo)
         IN  IF tag >= NumVariants
             THEN [ok |-> FALSE, item |-> None, rest |-> src, readHi |-> src.lo + TagSize]
             ELSE IF tag = TagRect
             THEN [ok |-> TRUE,
                   item |-> Rect(PeekRectItem(buf, src.lo + TagSize)),
                   rest |-> Slice(src.lo + TagSize + RectItemSize, src.hi),
                   readHi |-> src.lo + TagSize + RectItemSize]
             ELSE [ok |-> TRUE,
                   item |-> [tag |-> tag, rect |-> RectDefault],
                   rest |-> Slice(src.lo + TagSize, src.hi),
                   readHi |-> src.lo + TagSize]

\* peek_from_slice::<usize>: asserts max_size < len, then reads eight bytes.
PeekUsizeFromSlice(buf, src) ==
    IF ~(UsizeSize < SliceLen(src))
    THEN [ok |-> FALSE, val |-> 0, rest |-> src, readHi |-> src.lo]
    ELSE [ok |-> TRUE, val |-> PeekUsize(buf, src.lo),
          rest |-> Slice(src.lo + UsizeSize, src.hi), readHi |-> src.lo + UsizeSize]

\* Mutant of SplitAt: the two halves are returned in the other order.
SplitAt_Swapped(s, mid) ==
    IF mid > SliceLen(s)
    THEN [ok |-> FALSE, left |-> EmptySlice, right |-> s]
    ELSE [ok |-> TRUE, left |-> Slice(s.lo + mid, s.hi), right |-> Slice(s.lo, s.lo + mid)]

\* Mutant of SplitAt: no bounds check.
SplitAt_Unchecked(s, mid) ==
    [ok |-> TRUE, left |-> Slice(s.lo, s.lo + mid), right |-> Slice(s.lo + mid, s.hi)]

\* <[u8]>::split_at: panics when mid > len.
SplitAt(s, mid) ==
    IF mid > SliceLen(s)
    THEN [ok |-> FALSE, left |-> EmptySlice, right |-> s]
    ELSE [ok |-> TRUE, left |-> Slice(s.lo, s.lo + mid), right |-> Slice(s.lo + mid, s.hi)]

(* ---------------------------- DisplayList ----------------------------- *)
\* DisplayList::push_item
PushItemBytes(payload, item) == PokeIntoVec(PokeItem(item), payload)

\* Mutant of ByteSize: the byte_size field itself is counted.
ByteSize_CountsField(finalOffset, byteSizeOffset) == finalOffset - byteSizeOffset

\* The byte_size that push_iter computes from the two offsets.
ByteSize(finalOffset, byteSizeOffset) == finalOffset - byteSizeOffset - UsizeSize

\* DisplayList::push_iter up to ensure_red_zone: the byte_size placeholder,
\* the count, the items and the red zone are appended.
PushIterAppend(payload, items) ==
    LET len == Len(items)
        p1 == PokeIntoVec(PokeUsize(0), payload)
        p2 == PokeIntoVec(PokeUsize(len), p1)
        p3 == PokeExtendVec(items, p2)
    IN  EnsureRedZone(MaxSize, p3)

\* DisplayList::push_iter
PushIterBytes(payload, items) ==
    LET byteSizeOffset == Len(payload)
        p4 == PushIterAppend(payload, items)
        finalOffset == Len(p4)
        byteSize == ByteSize(finalOffset, byteSizeOffset)
    IN  PokeInplaceSlice(PokeUsize(byteSize), p4, byteSizeOffset)

\* Mutant of PushListBytes: the List marker is not pushed.
PushListBytes_NoMarker(payload, items) == PushIterBytes(payload, items)

\* DisplayList::push_list
PushListBytes(payload, items) == PushIterBytes(PushItemBytes(payload, List), items)

\* Mutant of EndBytes: two red zones are appended.
EndBytes_TwoRedZones(payload) == EnsureRedZone(MaxSize, EnsureRedZone(MaxSize, payload))

\* Mutant of EndBytes: the red zone is sized for RectItem.
EndBytes_RectItemRedZone(payload) == EnsureRedZone(RectItemSize, payload)

\* DisplayList::end
EndBytes(payload) == EnsureRedZone(MaxSize, payload)

(* ------------------------- DisplayListIter ---------------------------- *)
\* DisplayListIter::new
DisplayListIterNew(buf) == WholeSlice(buf)

\* Mutant of AtRedZone: the comparison is strict.
AtRedZone_Strict(view) == SliceLen(view) < MaxSize

\* The end-of-stream test of next_payload_as_item:
\* self.data.len() <= DisplayListItem::max_size()
AtRedZone(view) == SliceLen(view) <= MaxSize

\* DisplayListIter::next_payload_as_item on the view `view` of `buf`.
\* some: an item is returned; panic: the call aborts; hasSkip/skip: the
\* returned skip-range; rest: self.data afterwards; peeks: the length of the
\* slice handed to peek_from_slice::<DisplayListItem>, if it was called.
NextPayloadAsItem(buf, view) ==
    IF AtRedZone(view)
    THEN [some |-> FALSE, panic |-> FALSE, item |-> None, hasSkip |-> FALSE,
          skip |-> EmptySlice, rest |-> view, readHi |-> view.lo, peeks |-> {}]
    ELSE LET p == PeekItemFromSlice(buf, view)
         IN  IF ~p.ok
             THEN [some |-> FALSE, panic |-> TRUE, item |-> None, hasSkip |-> FALSE,
                   skip |-> EmptySlice, rest |-> view, readHi |-> p.readHi,
                   peeks |-> {SliceLen(view)}]
             ELSE IF p.item.tag = TagList
             THEN LET u == PeekUsizeFromSlice(buf, p.rest)
                      sp == SplitAt(u.rest, u.val)
                  IN  IF ~u.ok \/ ~sp.ok
                      THEN [some |-> FALSE, panic |-> TRUE, item |-> p.item,
                            hasSkip |-> FALSE, skip |-> EmptySlice, rest |-> u.rest,
                            readHi |-> u.readHi, peeks |-> {SliceLen(view)}]
                      ELSE [some |-> TRUE, panic |-> FALSE, item |-> p.item,
                            hasSkip |-> TRUE, skip |-> sp.left, rest |-> sp.right,
                            readHi |-> u.readHi, peeks |-> {SliceLen(view)}]
             ELSE [some |-> TRUE, panic |-> FALSE, item |-> p.item, hasSkip |-> FALSE,
                   skip |-> EmptySlice, rest |-> p.rest, readHi |-> p.readHi,
                   peeks |-> {SliceLen(view)}]

(* ------------------------------ messages ------------------------------ *)
\* Message::SetDisplayList(dl); log is the record of the builder calls that
\* produced dl (history, not program state).
SetDisplayList(bytes, log) == [kind |-> "SetDisplayList", payload |-> bytes, ops |-> log]
\* Message::Close
Close == [kind |-> "Close", payload |-> <<>>, ops |-> <<>>]

ItemOp(item, at) == [kind |-> "item", item |-> item, items |-> <<>>, start |-> at]
ListOp(items, at) == [kind |-> "list", item |-> List, items |-> items, start |-> at]

TopObs(item) == [nested |-> FALSE, item |-> item]
NestedObs(item) == [nested |-> TRUE, item |-> item]

(* ------------------------------- state -------------------------------- *)
VARIABLES
    mainPc,          \* main thread: "idle", "build", "sealed", "late" (a builder call
                     \* was made after end), "wait", "closed", "done" (returned),
                     \* "aborted" (panicked)
    payload,         \* display_list.payload on the main thread
    ops,             \* history: builder calls made on display_list
    sender,          \* work channel (sender -> receiver), FIFO
    results,         \* completion channel (result_sender -> result_receiver), FIFO
    backendPc,       \* backend thread: "recv", "next", "size", "walk", "send", "exited",
                     \* "panicked" (in process), "disconnected" (an expect on a channel
                     \* failed), "killed" (the process ended under it)
    dl,              \* payload of the display list the backend owns
    dlOps,           \* history: builder calls that produced dl
    iterData,        \* iter.data in Backend::process
    data,            \* data in Backend::process (the skip-range being walked)
    size,            \* size in Backend::process
    observed,        \* history: items printed by Backend::process for dl
    readHi,          \* history: one past the last byte of dl read by the last step
    itemPeeks,       \* history: the slice length the last step handed to the item peek, if any
    submitted,       \* history: SetDisplayList messages sent before Close
    started,         \* history: calls of Backend::process begun
    finished,        \* history: calls of Backend::process returned
    signals,         \* history: sends on result_sender
    firstMsg         \* history: kind of the first message received, or "none"

vars == <<mainPc, payload, ops, sender, results, backendPc, dl, dlOps, iterData, data,
          size, observed, readHi, itemPeeks, submitted, started, finished,
          signals, firstMsg>>

mainVars == <<mainPc, payload, ops, submitted>>
backendVars == <<backendPc, dl, dlOps, iterData, data, size, observed, readHi,
                 itemPeeks, started, finished, signals, firstMsg>>

Init ==
    /\ mainPc = "idle"
    /\ payload = <<>>
    /\ ops = <<>>
    /\ sender = <<>>
    /\ results = <<>>
    /\ backendPc = "recv"
    /\ dl = <<>>
    /\ dlOps = <<>>
    /\ iterData = EmptySlice
    /\ data = EmptySlice
    /\ size = 0
    /\ observed = <<>>
    /\ readHi = 0
    /\ itemPeeks = {}
    /\ submitted = 0
    /\ started = 0
    /\ finished = 0
    /\ signals = 0
    /\ firstMsg = "none"

\* The backend thread has ended: its closure returned or unwound.
BackendEnded == backendPc \in {"exited", "panicked", "disconnected"}
\* The receiving end of the work channel is dropped when the backend thread ends.
ReceiverDropped == BackendEnded
\* result_sender is dropped with the backend thread.
ResultSenderDropped == BackendEnded
\* main has ended: it returned or unwound, and its locals are dropped.
MainEnded == mainPc \in {"done", "aborted"}
\* sender is dropped when main ends.
SenderDropped == MainEnded
\* result_receiver is dropped when main ends.
ResultReceiverDropped == MainEnded

(* ---------------------------- main thread ----------------------------- *)
\* main builds one display list, sends it, waits for the result and sends
\* Close.  The modelled client follows the same protocol with any bounded
\* sequence of push_item and push_list calls, for zero to MaxStreams display
\* lists, and may send one more message after Close or return without
\* sending Close.
\* DisplayList::new()
NewDisplayList ==
    /\ mainPc = "idle"
    /\ submitted < MaxStreams
    /\ mainPc' = "build"
    /\ payload' = <<>>
    /\ ops' = <<>>
    /\ UNCHANGED <<submitted, sender, results>>
    /\ UNCHANGED backendVars

\* display_list.push_item(&item)
PushItem(item) ==
    /\ mainPc = "build"
    /\ Len(ops) < MaxOps
    /\ payload' = PushItemBytes(payload, item)
    /\ ops' = Append(ops, ItemOp(item, Len(payload)))
    /\ UNCHANGED <<mainPc, submitted, sender, results>>
    /\ UNCHANGED backendVars

\* display_list.push_list(items)
PushList(items) ==
    /\ mainPc = "build"
    /\ Len(ops) < MaxOps
    /\ payload' = PushListBytes(payload, items)
    /\ ops' = Append(ops, ListOp(items, Len(payload)))
    /\ UNCHANGED <<mainPc, submitted, sender, results>>
    /\ UNCHANGED backendVars

\* display_list.end()
End ==
    /\ mainPc = "build"
    /\ payload' = EndBytes(payload)
    /\ mainPc' = "sealed"
    /\ UNCHANGED <<ops, submitted, sender, results>>
    /\ UNCHANGED backendVars

\* DisplayList has no sealed state: push_item, push_list and end take
\* &mut self and do the same after end as before it.  A client that misuses
\* the builder makes one such call between end and the send.
\* display_list.push_item(&item), after end
PushItemAfterEnd(item) ==
    /\ mainPc = "sealed"
    /\ payload' = PushItemBytes(payload, item)
    /\ mainPc' = "late"
    /\ UNCHANGED <<ops, submitted, sender, results>>
    /\ UNCHANGED backendVars

\* display_list.push_list(items), after end
PushListAfterEnd(items) ==
    /\ mainPc = "sealed"
    /\ payload' = PushListBytes(payload, items)
    /\ mainPc' = "late"
    /\ UNCHANGED <<ops, submitted, sender, results>>
    /\ UNCHANGED backendVars

\* display_list.end(), after end
EndAfterEnd ==
    /\ mainPc = "sealed"
    /\ payload' = EndBytes(payload)
    /\ mainPc' = "late"
    /\ UNCHANGED <<ops, submitted, sender, results>>
    /\ UNCHANGED backendVars

\* Mutant of SendDisplayList: main sends a copy and keeps the list.
SendDisplayList_KeepsPayload ==
    /\ mainPc \in {"sealed", "late"}
    /\ IF ReceiverDropped
       THEN /\ mainPc' = "aborted"
            /\ UNCHANGED <<sender, submitted>>
       ELSE /\ sender' = Append(sender, SetDisplayList(payload, ops))
            /\ submitted' = submitted + 1
            /\ mainPc' = "wait"
    /\ UNCHANGED <<payload, ops>>
    /\ UNCHANGED results
    /\ UNCHANGED backendVars

\* sender.send(Message::SetDisplayList(display_list)).expect(..): the list is
\* moved into the message.
SendDisplayList ==
    /\ mainPc \in {"sealed", "late"}
    /\ IF ReceiverDropped
       THEN /\ mainPc' = "aborted"
            /\ UNCHANGED <<sender, submitted>>
       ELSE /\ sender' = Append(sender, SetDisplayList(payload, ops))
            /\ submitted' = submitted + 1
            /\ mainPc' = "wait"
    /\ payload' = <<>>
    /\ ops' = <<>>
    /\ UNCHANGED results
    /\ UNCHANGED backendVars

\* Mutant of RecvResult: main does not wait for the result.
RecvResult_NoWait ==
    /\ mainPc = "wait"
    /\ mainPc' = "idle"
    /\ results' = IF results # <<>> THEN Tail(results) ELSE results
    /\ UNCHANGED <<payload, ops, submitted, sender>>
    /\ UNCHANGED backendVars

\* Mutant of RecvResult: recv keeps blocking on an empty, disconnected channel.
RecvResult_BlocksOnDisconnect ==
    /\ mainPc = "wait"
    /\ results # <<>>
    /\ results' = Tail(results)
    /\ mainPc' = "idle"
    /\ UNCHANGED <<payload, ops, submitted, sender>>
    /\ UNCHANGED backendVars

\* result_receiver.recv().expect(..): blocks while the channel is empty and
\* connected; fails once it is empty and disconnected.
RecvResult ==
    /\ mainPc = "wait"
    /\ \/ /\ results # <<>>
          /\ results' = Tail(results)
          /\ mainPc' = "idle"
       \/ /\ results = <<>>
          /\ ResultSenderDropped
          /\ mainPc' = "aborted"
          /\ UNCHANGED results
    /\ UNCHANGED <<payload, ops, submitted, sender>>
    /\ UNCHANGED backendVars

\* sender.send(Message::Close).expect(..)
SendClose ==
    /\ mainPc = "idle"
    /\ IF ReceiverDropped
       THEN /\ mainPc' = "aborted"
            /\ UNCHANGED sender
       ELSE /\ sender' = Append(sender, Close)
            /\ mainPc' = "closed"
    /\ UNCHANGED <<payload, ops, submitted, results>>
    /\ UNCHANGED backendVars

\* A client that sends one more message after Close.
SendAfterClose(msg) ==
    /\ mainPc = "closed"
    /\ IF ReceiverDropped
       THEN /\ mainPc' = "aborted"
            /\ UNCHANGED sender
       ELSE /\ sender' = Append(sender, msg)
            /\ mainPc' = "done"
    /\ UNCHANGED <<payload, ops, submitted, results>>
    /\ UNCHANGED backendVars

\* main returns, after Close or (a client that stops) without sending it; its
\* locals, sender and result_receiver among them, are dropped.
MainReturn ==
    /\ mainPc \in {"idle", "closed"}
    /\ mainPc' = "done"
    /\ UNCHANGED <<payload, ops, submitted, sender, results>>
    /\ UNCHANGED backendVars

(* --------------------------- backend thread --------------------------- *)
\* Mutant of OnSetDisplayList: the display list is taken but process is not
\* called for it.
OnSetDisplayList_NoProcess(msg) ==
    /\ dl' = msg.payload
    /\ dlOps' = msg.ops
    /\ iterData' = DisplayListIterNew(msg.payload)
    /\ observed' = <<>>
    /\ started' = started
    /\ backendPc' = "send"
    /\ UNCHANGED <<results, signals>>

\* Mutant of OnSetDisplayList: the result is sent before process runs.
OnSetDisplayList_SignalFirst(msg) ==
    /\ dl' = msg.payload
    /\ dlOps' = msg.ops
    /\ iterData' = DisplayListIterNew(msg.payload)
    /\ observed' = <<>>
    /\ started' = started + 1
    /\ backendPc' = "next"
    /\ results' = Append(results, "()")
    /\ signals' = signals + 1

\* Backend::run, arm Message::SetDisplayList(dl): the backend takes ownership
\* of dl and enters process(dl.iter()).
OnSetDisplayList(msg) ==
    /\ dl' = msg.payload
    /\ dlOps' = msg.ops
    /\ iterData' = DisplayListIterNew(msg.payload)
    /\ observed' = <<>>
    /\ started' = started + 1
    /\ backendPc' = "next"
    /\ UNCHANGED <<results, signals>>

\* Mutant of OnClose: Close is acknowledged like a display list.
OnClose_Acknowledged ==
    /\ backendPc' = "exited"
    /\ results' = Append(results, "()")
    /\ signals' = signals + 1
    /\ UNCHANGED <<dl, dlOps, iterData, observed, started>>

\* Mutant of OnClose: the loop goes on after Close.
OnClose_Continues ==
    /\ backendPc' = "recv"
    /\ UNCHANGED <<dl, dlOps, iterData, observed, started, results, signals>>

\* Backend::run, arm Message::Close: break out of the loop.
OnClose ==
    /\ backendPc' = "exited"
    /\ UNCHANGED <<dl, dlOps, iterData, observed, started, results, signals>>

\* Backend::run: receiver.recv().expect(..) and the match on the message.
\* recv blocks while the channel is empty and connected, and fails once it
\* is empty and disconnected.
Recv ==
    /\ backendPc = "recv"
    /\ \/ /\ sender # <<>>
          /\ LET msg == Head(sender)
             IN  /\ sender' = Tail(sender)
                 /\ firstMsg' = IF firstMsg = "none" THEN msg.kind ELSE firstMsg
                 /\ IF msg.kind = "SetDisplayList" THEN OnSetDisplayList(msg) ELSE OnClose
       \/ /\ sender = <<>>
          /\ SenderDropped
          /\ backendPc' = "disconnected"
          /\ UNCHANGED <<sender, firstMsg, dl, dlOps, iterData, observed, started,
                         results, signals>>
    /\ UNCHANGED <<data, size, readHi, itemPeeks, finished>>
    /\ UNCHANGED mainVars

\* Backend::process, outer loop: one call of iter.next_payload_as_item and
\* the match on its result.
ProcessNext ==
    /\ backendPc = "next"
    /\ \E r \in {NextPayloadAsItem(dl, iterData)} :
           /\ readHi' = r.readHi
           /\ itemPeeks' = {[nested |-> FALSE, len |-> n] : n \in r.peeks}
           /\ iterData' = r.rest
           /\ IF r.panic
              THEN /\ backendPc' = "panicked"
                   /\ UNCHANGED <<observed, data, finished>>
              ELSE IF ~r.some
              THEN /\ backendPc' = "send"
                   /\ finished' = finished + 1
                   /\ UNCHANGED <<observed, data>>
              ELSE /\ observed' = Append(observed, TopObs(r.item))
                   /\ IF r.hasSkip
                      THEN /\ data' = r.skip
                           /\ backendPc' = "size"
                      ELSE /\ backendPc' = "next"
                           /\ UNCHANGED data
                   /\ UNCHANGED finished
    /\ UNCHANGED <<dl, dlOps, size, started, signals, firstMsg, sender, results>>
    /\ UNCHANGED mainVars

\* Mutant of ProcessSize: the array size is not read from the skip-range.
ProcessSize_NoCount ==
    /\ backendPc = "size"
    /\ size' = 0
    /\ backendPc' = "walk"
    /\ itemPeeks' = {}
    /\ UNCHANGED <<data, readHi>>
    /\ UNCHANGED <<dl, dlOps, iterData, observed, started, finished, signals, firstMsg,
                   sender, results>>
    /\ UNCHANGED mainVars

\* Backend::process: read the array size from the skip-range unless it is
\* empty.
ProcessSize ==
    /\ backendPc = "size"
    /\ IF SliceLen(data) = 0
       THEN /\ size' = 0
            /\ backendPc' = "walk"
            /\ UNCHANGED <<data, readHi>>
       ELSE \E u \in {PeekUsizeFromSlice(dl, data)} :
                /\ readHi' = u.readHi
                /\ data' = u.rest
                /\ size' = u.val
                /\ backendPc' = IF u.ok THEN "walk" ELSE "panicked"
    /\ itemPeeks' = {}
    /\ UNCHANGED <<dl, dlOps, iterData, observed, started, finished, signals, firstMsg,
                   sender, results>>
    /\ UNCHANGED mainVars

\* Mutant of ProcessWalk: the inner loop runs until the red zone and does
\* not count.
ProcessWalk_UntilRedZone ==
    /\ backendPc = "walk"
    /\ IF SliceLen(data) <= MaxSize
       THEN /\ backendPc' = "next"
            /\ itemPeeks' = {}
            /\ UNCHANGED <<size, data, observed, readHi>>
       ELSE \E p \in {PeekItemFromSlice(dl, data)} :
                /\ size' = size
                /\ itemPeeks' = {[nested |-> TRUE, len |-> SliceLen(data)]}
                /\ readHi' = p.readHi
                /\ data' = p.rest
                /\ IF p.ok
                   THEN /\ observed' = Append(observed, NestedObs(p.item))
                        /\ backendPc' = "walk"
                   ELSE /\ backendPc' = "panicked"
                        /\ UNCHANGED observed
    /\ UNCHANGED <<dl, dlOps, iterData, started, finished, signals, firstMsg,
                   sender, results>>
    /\ UNCHANGED mainVars

\* Mutant of ProcessWalk: the inner loop advances the outer iterator too.
ProcessWalk_SharedCursor ==
    /\ backendPc = "walk"
    /\ IF size = 0
       THEN /\ backendPc' = "next"
            /\ itemPeeks' = {}
            /\ UNCHANGED <<size, data, observed, readHi, iterData>>
       ELSE \E p \in {PeekItemFromSlice(dl, data)} :
                /\ size' = size - 1
                /\ itemPeeks' = {[nested |-> TRUE, len |-> SliceLen(data)]}
                /\ readHi' = p.readHi
                /\ data' = p.rest
                /\ iterData' = p.rest
                /\ IF p.ok
                   THEN /\ observed' = Append(observed, NestedObs(p.item))
                        /\ backendPc' = "walk"
                   ELSE /\ backendPc' = "panicked"
                        /\ UNCHANGED observed
    /\ UNCHANGED <<dl, dlOps, started, finished, signals, firstMsg, sender, results>>
    /\ UNCHANGED mainVars

\* Backend::process, inner loop: one iteration.
ProcessWalk ==
    /\ backendPc = "walk"
    /\ IF size = 0
       THEN /\ backendPc' = "next"
            /\ itemPeeks' = {}
            /\ UNCHANGED <<size, data, observed, readHi>>
       ELSE \E p \in {PeekItemFromSlice(dl, data)} :
                /\ size' = size - 1
                /\ itemPeeks' = {[nested |-> TRUE, len |-> SliceLen(data)]}
                /\ readHi' = p.readHi
                /\ data' = p.rest
                /\ IF p.ok
                   THEN /\ observed' = Append(observed, NestedObs(p.item))
                        /\ backendPc' = "walk"
                   ELSE /\ backendPc' = "panicked"
                        /\ UNCHANGED observed
    /\ UNCHANGED <<dl, dlOps, iterData, started, finished, signals, firstMsg,
                   sender, results>>
    /\ UNCHANGED mainVars

\* Backend::run: result_sender.send(()).expect(..) after process returned;
\* iter and dl are dropped at the end of the match arm.
SendResult ==
    /\ backendPc = "send"
    /\ IF ResultReceiverDropped
       THEN /\ backendPc' = "disconnected"
            /\ UNCHANGED <<results, signals>>
       ELSE /\ results' = Append(results, "()")
            /\ signals' = signals + 1
            /\ backendPc' = "recv"
    /\ dl' = <<>>
    /\ dlOps' = <<>>
    /\ iterData' = EmptySlice
    /\ data' = EmptySlice
    /\ size' = 0
    /\ observed' = <<>>
    /\ readHi' = 0
    /\ itemPeeks' = {}
    /\ UNCHANGED <<started, finished, firstMsg, sender>>
    /\ UNCHANGED mainVars

(* ------------------------------ process ------------------------------ *)
\* main is not joined with the backend thread: once main has ended, the
\* process ends and a backend thread that is still running ends with it.
ProcessExit ==
    /\ MainEnded
    /\ ~BackendEnded
    /\ backendPc # "killed"
    /\ backendPc' = "killed"
    /\ UNCHANGED <<dl, dlOps, iterData, data, size, observed, readHi, itemPeeks,
                   started, finished, signals, firstMsg, sender, results>>
    /\ UNCHANGED mainVars

(* --------------------------- specification ---------------------------- *)
LateMessages == {Close, SetDisplayList(EndBytes(<<>>), <<>>)}

Next ==
    \/ NewDisplayList
    \/ \E item \in TopItems : PushItem(item)
    \/ \E items \in Lists : PushList(items)
    \/ End
    \/ SendDisplayList
    \/ RecvResult
    \/ SendClose
    \/ \E msg \in LateMessages : SendAfterClose(msg)
    \/ MainReturn
    \/ Recv
    \/ ProcessNext
    \/ ProcessSize
    \/ ProcessWalk
    \/ SendResult
    \/ ProcessExit

Spec == Init /\ [][Next]_vars

\* The pipeline with a client that builds from two kinds of record, a Rect
\* and a List marker, and from full sublists: the display lists it sends
\* make process return or panic, which is all the channels see of them.
PipelineItems == {Rect(RectA), List}
PipelineLists == {Repeat(ListItem, MaxListLen)}

PipelineNext ==
    \/ NewDisplayList
    \/ \E item \in PipelineItems : PushItem(item)
    \/ \E items \in PipelineLists : PushList(items)
    \/ End
    \/ SendDisplayList
    \/ RecvResult
    \/ SendClose
    \/ \E msg \in LateMessages : SendAfterClose(msg)
    \/ MainReturn
    \/ Recv
    \/ ProcessNext
    \/ ProcessSize
    \/ ProcessWalk
    \/ SendResult
    \/ ProcessExit

\* The steps of the backend thread.
BackendStep == Recv \/ ProcessNext \/ ProcessSize \/ ProcessWalk \/ SendResult

\* Both threads are scheduled fairly: the backend thread, while it can take
\* a step (it is not blocked in recv on an empty, connected channel and has
\* not ended), eventually takes one; main, waiting in recv for a result,
\* eventually returns from it once it can; and a process whose main thread
\* ended does end. Nothing is assumed about how long main takes to build.
FairSpec ==
    /\ Init /\ [][PipelineNext]_vars
    /\ WF_vars(RecvResult)
    /\ WF_vars(BackendStep)
    /\ WF_vars(ProcessExit)

\* A client that does not keep to "no call after end": it may make one
\* builder call between end and the send.
MisuseNext ==
    \/ PipelineNext
    \/ \E item \in PipelineItems : PushItemAfterEnd(item)
    \/ \E items \in PipelineLists : PushListAfterEnd(items)
    \/ EndAfterEnd

MisuseSpec == Init /\ [][MisuseNext]_vars

(* ------------------- definitions used by the claims ------------------- *)
\* No List marker was appended by push_item: every marker in the stream is
\* followed by the byte_size and count fields that push_iter writes.
WellFormed(log) ==
    \A i \in DOMAIN log : log[i].kind = "item" => log[i].item.tag # TagList

RECURSIVE SumSizes(_)
SumSizes(items) ==
    IF items = <<>> THEN 0 ELSE EncodedSize(Head(items)) + SumSizes(Tail(items))

\* Bytes one builder call is expected to append.
OpSize(op) ==
    IF op.kind = "item" THEN EncodedSize(op.item)
    ELSE TagSize + UsizeSize + UsizeSize + SumSizes(op.items) + MaxSize

RECURSIVE OpsLen(_)
OpsLen(log) == IF log = <<>> THEN 0 ELSE OpSize(Head(log)) + OpsLen(Tail(log))

\* What a full walk is expected to print for the builder calls in log.
RECURSIVE Expected(_)
Expected(log) ==
    IF log = <<>> THEN <<>>
    ELSE LET op == Head(log)
             first == IF op.kind = "item" THEN <<TopObs(op.item)>>
                      ELSE <<TopObs(List)>>
                           \o [i \in 1..Len(op.items) |-> NestedObs(op.items[i])]
         IN  first \o Expected(Tail(log))

IsPrefix(a, b) == Len(a) <= Len(b) /\ SubSeq(b, 1, Len(a)) = a

IsTop(o) == ~o.nested
TopOnly(obs) == SelectSeq(obs, IsTop)

Decoding == backendPc \in {"next", "size", "walk"}

\* A decode pass that calls next_payload_as_item to exhaustion and ignores
\* every skip-range it is handed.
RECURSIVE SkipPassFrom(_, _, _)
SkipPassFrom(buf, view, acc) ==
    LET r == NextPayloadAsItem(buf, view)
    IN  IF r.panic THEN [panic |-> TRUE, items |-> acc, rest |-> r.rest]
        ELSE IF ~r.some THEN [panic |-> FALSE, items |-> acc, rest |-> r.rest]
        ELSE SkipPassFrom(buf, r.rest, Append(acc, TopObs(r.item)))

SkipPass(buf) == SkipPassFrom(buf, DisplayListIterNew(buf), <<>>)

\* Where the builder call after ops[i] starts, or where the appended records end.
OpEnd(log, i, bodyEnd) == IF i < Len(log) THEN log[i + 1].start ELSE bodyEnd
BodyEnd == IF mainPc = "sealed" THEN Len(payload) - MaxSize ELSE Len(payload)

AllSame(items) == \A k \in DOMAIN items : items[k] = items[1]

(* ------------------------------- claims ------------------------------- *)
\* C1 (as stated): for every sequence of push_item calls with any record and
\* of push_list calls, followed by end, the full walk never aborts, prints a
\* prefix of the appended records at every step and, when it returns, has
\* printed exactly the appended records in order, sublist items nested under
\* their List marker.
C1_RoundTripAnyRecords ==
    /\ backendPc # "panicked"
    /\ Decoding => IsPrefix(observed, Expected(dlOps))
    /\ backendPc = "send" => observed = Expected(dlOps)

\* C1 (amended): the round trip holds for every stream in which List markers
\* are appended only by push_list.
C1_RoundTripWellFormed == WellFormed(dlOps) => C1_RoundTripAnyRecords

C1_Witness ==
    /\ backendPc = "send"
    /\ WellFormed(dlOps)
    /\ observed = Expected(dlOps)
    /\ \E i, j, k \in DOMAIN dlOps :
          /\ dlOps[i].kind = "item" /\ dlOps[i].item.tag = TagRect
          /\ dlOps[j].kind = "list" /\ dlOps[j].items = <<>>
          /\ dlOps[k].kind = "list" /\ Len(dlOps[k].items) = MaxListLen

\* C2: for every stream built by push_item (any variant, a bare List marker
\* included) and push_list and sealed by end, no step of process reads a byte
\* at or past the end of the payload, and neither iter.data nor a returned
\* skip-range reaches past it.
C2_BoundsSafety ==
    /\ readHi <= Len(dl)
    /\ iterData.lo <= iterData.hi /\ iterData.hi <= Len(dl)
    /\ data.lo <= data.hi /\ data.hi <= Len(dl)

C2_Witness ==
    /\ backendPc = "size"
    /\ ~WellFormed(dlOps)
    /\ SliceLen(data) > 0
    /\ readHi > 0

\* C3: for every push_list with n items, the value backpatched into the
\* byte_size field is size_of(usize) + the encoded sizes of the items (n times
\* the item's size when they are all alike) + max_size; the List marker and the
\* field itself are not counted, and the field's end plus that value is where
\* the next top-level record, or the final red zone, starts.
C3_ByteSizeAccuracy ==
    mainPc \in {"build", "sealed"} =>
        \A i \in DOMAIN ops :
            ops[i].kind = "list" =>
                LET items == ops[i].items
                    at == ops[i].start + TagSize
                    v == PeekUsize(payload, at)
                IN  /\ ByteAt(payload, ops[i].start) = TagList
                    /\ v = UsizeSize + SumSizes(items) + MaxSize
                    /\ (items # <<>> /\ AllSame(items)) =>
                           v = UsizeSize + Len(items) * EncodedSize(items[1]) + MaxSize
                    /\ at + UsizeSize + v = OpEnd(ops, i, BodyEnd)

C3_Witness ==
    /\ mainPc = "sealed"
    /\ Len(ops) = 3
    /\ ops[1].kind = "list" /\ Len(ops[1].items) = MaxListLen
    /\ ops[2].kind = "item"
    /\ ops[3].kind = "list" /\ ops[3].items = <<>>
    /\ PeekUsize(payload, ops[3].start + TagSize) = UsizeSize + MaxSize

\* C4 (as stated): for every sealed stream, once the walking pass has ended,
\* the pass that ignores every skip-range has returned the same top-level
\* records (as many of them) and left the outer view at the same place.
C4_SkipEqualsWalkAnyStream ==
    LET s == SkipPass(dl)
    IN  (backendPc \in {"send", "panicked"} /\ ~s.panic) =>
            /\ s.items = TopOnly(observed)
            /\ s.rest = iterData

\* C4 (amended): the two passes agree on every stream in which List markers
\* are appended only by push_list, and there both return the appended
\* top-level records, List markers included and sublist items excluded.
C4_SkipEqualsWalkWellFormed ==
    WellFormed(dlOps) =>
        LET s == SkipPass(dl)
        IN  /\ backendPc # "panicked"
            /\ backendPc = "send" =>
                  /\ ~s.panic
                  /\ s.items = TopOnly(observed)
                  /\ Len(s.items) = Len(dlOps)
                  /\ \A i \in DOMAIN dlOps : s.items[i] = TopObs(dlOps[i].item)
                  /\ s.rest = iterData

C4_Witness ==
    /\ backendPc = "send"
    /\ WellFormed(dlOps)
    /\ Len(dlOps) = 3
    /\ dlOps[1].kind = "list" /\ Len(dlOps[1].items) = MaxListLen
    /\ dlOps[2].kind = "item"
    /\ Len(observed) > Len(TopOnly(observed))
    /\ SkipPass(dl).rest = iterData

C6_NextStep ==
    backendPc = "next" =>
        /\ backendPc' = "send" =>
              /\ SliceLen(iterData) <= MaxSize
              /\ iterData' = iterData
              /\ observed' = observed
        /\ (SliceLen(iterData) <= MaxSize /\ backendPc' # "next") => backendPc' = "send"
        /\ observed' # observed => SliceLen(iterData) > MaxSize

\* C6 (as stated): on every stream sealed by end, next_payload_as_item first
\* returns nothing exactly after the last appended top-level record (or
\* sublist) has been returned.
C6_EndOfStreamAnyStream ==
    backendPc = "send" => Len(TopOnly(observed)) = Len(dlOps)

\* C6 (amended): next_payload_as_item returns nothing exactly when the view
\* holds max_size bytes or fewer; on a sealed stream in which List markers are
\* appended only by push_list this first happens exactly after the last
\* appended top-level record or sublist has been returned, with the view on
\* the final red zone, and a stream sealed with nothing appended yields no
\* record.
C6_EndOfStreamWellFormed ==
    /\ [][C6_NextStep]_vars
    /\ [](WellFormed(dlOps) =>
            /\ backendPc # "panicked"
            /\ C6_EndOfStreamAnyStream
            /\ backendPc = "send" => iterData = Slice(Len(dl) - MaxSize, Len(dl))
            /\ (backendPc = "next" /\ Len(TopOnly(observed)) < Len(dlOps)) =>
                   SliceLen(iterData) > MaxSize
            /\ (backendPc = "send" /\ dlOps = <<>>) => observed = <<>>)

C6_Witness ==
    /\ backendPc = "send"
    /\ dlOps = <<>>
    /\ observed = <<>>
    /\ Len(dl) = MaxSize
    /\ iterData = WholeSlice(dl)

\* Display lists that were sent and whose result has not been sent: waiting
\* in the work channel, or held by the backend.
Waiting == {i \in DOMAIN sender : sender[i].kind = "SetDisplayList"}
InFlight == Cardinality(Waiting) + (IF Decoding \/ backendPc = "send" THEN 1 ELSE 0)

\* C7: the backend sends the result for display list N after process has
\* returned for N and before process begins for N+1: while process runs for
\* N, N-1 results have been sent and N-1 calls have returned; a result is
\* pending only after the call for N returned; at recv every started call has
\* returned and been signalled.
C7_CompletionOrdering ==
    /\ signals <= finished /\ finished <= started /\ started <= signals + 1
    /\ Decoding => (started = signals + 1 /\ finished = signals)
    /\ backendPc = "send" => (finished = started /\ started = signals + 1)
    /\ backendPc \in {"recv", "exited"} => (started = finished /\ finished = signals)

C7_Witness ==
    /\ backendPc = "walk"
    /\ started = 2
    /\ finished = 1
    /\ signals = 1

\* C8: at most one display list is in the work channel or held by the
\* backend; main builds, seals and sends only while none is and no result is
\* unread; while main waits, the display list it sent is the one in flight
\* (or its result is in the completion channel, or the backend has died).
C8_AtMostOneInFlight ==
    /\ InFlight <= 1
    /\ Len(results) <= 1
    /\ mainPc \in {"idle", "build", "sealed", "closed"} =>
          (InFlight = 0 /\ results = <<>>)
    /\ mainPc = "wait" =>
          \/ InFlight = 1 /\ results = <<>>
          \/ InFlight = 0 /\ Len(results) = 1
          \/ backendPc = "panicked"

C8_Witness ==
    /\ mainPc = "wait"
    /\ submitted = 2
    /\ Decoding
    /\ InFlight = 1

\* C9: when the backend has processed Close after k display lists were
\* submitted, it has run process k times and sent exactly k results, all
\* before Close and none for Close; it never sends more results than display
\* lists were submitted.
C9_OneCompletionPerSubmit ==
    /\ signals <= submitted
    /\ backendPc = "exited" =>
          /\ signals = submitted
          /\ finished = submitted
          /\ results = <<>>

C9_Witness ==
    /\ backendPc = "exited"
    /\ submitted = 2
    /\ signals = 2

\* C10: if Close is the first message the backend receives, its loop has
\* ended with no call of process and no result sent; once the loop has ended
\* nothing is taken from the work channel, no process call begins and no
\* result is sent.
C10_CloseFirst ==
    /\ [](firstMsg = "Close" =>
            (backendPc = "exited" /\ started = 0 /\ signals = 0 /\ results = <<>>))
    /\ [][backendPc = "exited" =>
            /\ backendPc' = "exited"
            /\ started' = started
            /\ signals' = signals
            /\ IsPrefix(sender, sender')]_vars

C10_Witness ==
    /\ backendPc = "exited"
    /\ firstMsg = "Close"
    /\ started = 0
    /\ mainPc = "done"
    /\ \E i \in DOMAIN sender : sender[i].kind = "SetDisplayList"

\* The bytes the builder calls in log, followed by end, produce.
RECURSIVE BuildFrom(_, _)
BuildFrom(bytes, log) ==
    IF log = <<>> THEN bytes
    ELSE LET op == Head(log)
         IN  BuildFrom(IF op.kind = "item" THEN PushItemBytes(bytes, op.item)
                       ELSE PushListBytes(bytes, op.items),
                       Tail(log))

BuildBytes(log) == EndBytes(BuildFrom(<<>>, log))

\* Display lists in the work channel that the backend will receive before Close.
BeforeClose ==
    {i \in Waiting : backendPc # "exited" /\ \A j \in 1..(i - 1) : sender[j].kind # "Close"}

\* The last n bytes of bytes are a red zone.
EndsWithRedZone(bytes, n) ==
    /\ Len(bytes) >= n
    /\ \A i \in (Len(bytes) - n + 1)..Len(bytes) : bytes[i] = 0

\* C11: every display list main sent is either still in the work channel
\* ahead of any Close or process has been called for it exactly once, and a
\* call that returned is never repeated; a display list is in the channel or
\* with the backend only after end sealed it with the red zone; once its
\* result is sent the backend holds no byte and no view of it, and main holds
\* nothing of it from the send on.
C11_StreamLifecycle ==
    /\ submitted = started + Cardinality(BeforeClose)
    /\ finished <= started /\ started <= finished + 1
    /\ backendPc \in {"send", "recv", "exited"} => finished = started
    /\ \A i \in Waiting :
          /\ EndsWithRedZone(sender[i].payload, MaxSize)
          /\ Len(sender[i].payload) = OpsLen(sender[i].ops) + MaxSize
    /\ (Decoding \/ backendPc = "send") =>
          /\ EndsWithRedZone(dl, MaxSize)
          /\ Len(dl) = OpsLen(dlOps) + MaxSize
    /\ backendPc \in {"recv", "exited"} =>
          (dl = <<>> /\ iterData = EmptySlice /\ data = EmptySlice /\ readHi = 0)
    /\ mainPc \in {"wait", "idle", "closed", "done"} => payload = <<>>

C11_Witness ==
    /\ backendPc = "exited"
    /\ submitted = 2
    /\ started = 2
    /\ finished = 2
    /\ Waiting # {}

\* The builder calls of main and what a full walk of their stream prints.
MainOps ==
    <<ItemOp(Rect(RectA), 0),
      ItemOp(Rect(RectB), EncodedSize(Rect(RectA))),
      ListOp(<<ListItem, ListItem>>, EncodedSize(Rect(RectA)) + EncodedSize(Rect(RectB)))>>

MainObserved ==
    <<TopObs(Rect(RectA)), TopObs(Rect(RectB)), TopObs(List),
      NestedObs(ListItem), NestedObs(ListItem)>>

\* C12: for the display list main builds (Rect (100,100)-(500,500), Rect
\* (500,500)-(1000,1000), push_list of two ListItem, end) process prints, in
\* order, the first Rect, the second Rect, the List marker, whose skip-range
\* is the 27 bytes after its byte_size field, and exactly two ListItem read
\* from that skip-range; the next call then returns None on the 17-byte red
\* zone and nothing more is printed.
C12_EndToEnd ==
    dlOps = MainOps =>
       /\ dl = BuildBytes(MainOps)
       /\ backendPc # "panicked"
       /\ IsPrefix(observed, MainObserved)
       /\ backendPc = "size" =>
             /\ observed = SubSeq(MainObserved, 1, 3)
             /\ data = Slice(MainOps[3].start + TagSize + UsizeSize,
                             Len(dl) - MaxSize)
             /\ SliceLen(data) = UsizeSize + 2 * EncodedSize(ListItem) + MaxSize
       /\ backendPc = "walk" =>
             /\ Len(observed) = 3 + (2 - size)
             /\ data.hi = Len(dl) - MaxSize
       /\ backendPc = "send" =>
             /\ observed = MainObserved
             /\ iterData = Slice(Len(dl) - MaxSize, Len(dl))
             /\ ~NextPayloadAsItem(dl, iterData).some

C12_Witness ==
    /\ dlOps = MainOps
    /\ backendPc = "send"
    /\ observed = MainObserved
    /\ Len(dl) = 87

C13_WorkerDisconnected ==
    /\ backendPc = "disconnected"
    /\ mainPc = "done"

\* C14: from the send of a display list until its result is sent, main
\* holds no byte of it (the send moved the list out of main) and no step of
\* main changes it; in the channel and with the backend its bytes stay the
\* bytes the builder produced, and no step of process changes them: process
\* only moves its views over them.
C14_OwnershipTransfer ==
    /\ [](mainPc = "wait" => (payload = <<>> /\ ops = <<>>))
    /\ [](\A i \in Waiting : sender[i].payload = BuildBytes(sender[i].ops))
    /\ []((Decoding \/ backendPc \in {"send", "panicked"}) => dl = BuildBytes(dlOps))
    /\ [][(Decoding \/ backendPc = "send") =>
            \/ dl' = dl /\ dlOps' = dlOps
            \/ backendPc = "send" /\ backendPc' \in {"recv", "disconnected"}]_vars
    /\ [][mainVars' # mainVars =>
            /\ dl' = dl
            /\ iterData' = iterData
            /\ data' = data
            /\ IsPrefix(sender, sender')]_vars

C14_Witness ==
    /\ mainPc = "wait"
    /\ payload = <<>>
    /\ backendPc = "walk"
    /\ size = 1
    /\ dl = BuildBytes(dlOps)
    /\ Len(dl) > MaxSize

\* C15 (as stated): once end has sealed the list no later push_item,
\* push_list or end takes effect: the list main holds after end, and the list
\* the backend decodes, is the list as end left it, with exactly one red zone
\* of max_size bytes at its end, and process prints no record that was not
\* appended.
C15_SealedForGood ==
    /\ mainPc \in {"sealed", "late"} =>
          /\ payload = BuildBytes(ops)
          /\ Len(payload) = OpsLen(ops) + MaxSize
    /\ (Decoding \/ backendPc = "send") =>
          /\ dl = BuildBytes(dlOps)
          /\ \A i \in DOMAIN observed :
                \E j \in DOMAIN Expected(dlOps) : observed[i] = Expected(dlOps)[j]

\* C15 (amended): end appends exactly one red zone of max_size bytes; the
\* builder does not seal the list, a call after end appends as before, so
\* only a list on which no call follows end ends with exactly one red zone
\* after its records; when such a list has its List markers from push_list
\* only, process prints no record that was not appended.
C15_SealedByProtocol ==
    /\ [][(mainPc = "build" /\ mainPc' = "sealed") =>
            payload' = payload \o Zeros(MaxSize)]_vars
    /\ [](mainPc = "sealed" =>
            /\ payload = BuildBytes(ops)
            /\ EndsWithRedZone(payload, MaxSize)
            /\ Len(payload) = OpsLen(ops) + MaxSize)
    /\ [][(mainPc = "sealed" /\ mainPc' = "late") =>
            (IsPrefix(payload, payload') /\ Len(payload') > Len(payload))]_vars
    /\ []((/\ (Decoding \/ backendPc \in {"send", "panicked"})
            /\ dl = BuildBytes(dlOps)
            /\ WellFormed(dlOps)) =>
                /\ backendPc # "panicked"
                /\ IsPrefix(observed, Expected(dlOps))
                /\ backendPc = "send" => observed = Expected(dlOps))

C15_Witness ==
    /\ backendPc = "send"
    /\ dl = BuildBytes(dlOps)
    /\ WellFormed(dlOps)
    /\ Len(dlOps) = 2
    /\ observed = Expected(dlOps)
    /\ submitted = 2

C15_LateCallDecoded ==
    /\ backendPc = "send"
    /\ dl # BuildBytes(dlOps)
    /\ WellFormed(dlOps)
    /\ observed # Expected(dlOps)

\* Nested items printed since the last top-level item.
NestedDone ==
    Len(observed) - Len(SelectSeq([i \in DOMAIN observed |->
                                     \E j \in i..Len(observed) : ~observed[j].nested],
                                  LAMBDA b : b))

\* C16: for every sublist appended by push_list with n items, when process
\* holds the skip-range of that sublist (from the end of its byte_size field
\* to the end of its red zone) the size it reads is n, also for n = 0, where
\* the skip-range is the count field and the red zone; during the inner loop
\* the items printed plus the count left is n and the unread rest is the
\* items left plus the red zone; the loop ends when the count is 0, having
\* printed exactly the n items, with exactly the max_size zero bytes of the
\* sublist's red zone unread.
C16_NestedWalkByCount ==
    \A k \in DOMAIN dlOps :
       dlOps[k].kind = "list" =>
          LET op == dlOps[k]
              n  == Len(op.items)
              lo == op.start + TagSize + UsizeSize
              hi == op.start + OpSize(op)
          IN  /\ (backendPc = "size" /\ data = Slice(lo, hi)) =>
                    /\ SliceLen(data) = UsizeSize + SumSizes(op.items) + MaxSize
                    /\ PeekUsizeFromSlice(dl, data).ok
                    /\ PeekUsizeFromSlice(dl, data).val = n
              /\ (backendPc = "walk" /\ data.hi = hi /\ data.lo >= lo + UsizeSize) =>
                    /\ NestedDone + size = n
                    /\ SubSeq(observed, Len(observed) - NestedDone + 1, Len(observed))
                          = [i \in 1..NestedDone |-> NestedObs(op.items[i])]
                    /\ SliceLen(data)
                          = SumSizes(SubSeq(op.items, NestedDone + 1, n)) + MaxSize
                    /\ size = 0 =>
                          /\ NestedDone = n
                          /\ SliceLen(data) = MaxSize
                          /\ \A i \in data.lo..(data.hi - 1) : ByteAt(dl, i) = 0

C16_Witness ==
    /\ backendPc = "walk"
    /\ size = 0
    /\ dlOps = <<ListOp(<<>>, 0), ListOp(MixedList, TagSize + UsizeSize + UsizeSize + MaxSize)>>
    /\ NestedDone = 2
    /\ SliceLen(data) = MaxSize

C16_EmptySublistWalked ==
    /\ backendPc = "walk"
    /\ size = 0
    /\ dlOps = <<ListOp(<<>>, 0)>>
    /\ NestedDone = 0
    /\ data = Slice(TagSize + UsizeSize + UsizeSize, TagSize + UsizeSize + UsizeSize + MaxSize)

\* A step of main is a push_list call.
IsPushList == mainPc = "build" /\ Len(ops') = Len(ops) + 1 /\ ops'[Len(ops')].kind = "list"

\* C17: new, push_item, push_list and end leave every byte that was in
\* the payload before the call where it was and never shorten the payload
\* (the payload leaves main only by the send, which moves it); push_list
\* appends the marker, the zeroed byte_size placeholder, the count, the
\* items and the red zone, and the payload after the call differs from
\* those appended bytes only inside the 8 bytes of that placeholder.
C17_AppendOnly ==
    [][/\ payload' # payload =>
            IF mainPc' \in {"wait", "aborted"}
            THEN mainPc \in {"sealed", "late"} /\ payload' = <<>>
            ELSE /\ mainPc \in {"build", "sealed"}
                 /\ IsPrefix(payload, payload')
                 /\ Len(payload') > Len(payload)
       /\ IsPushList =>
            LET items == ops'[Len(ops')].items
                at == Len(payload) + TagSize
                appended == PushIterAppend(PushItemBytes(payload, List), items)
            IN  /\ Len(payload') = Len(appended)
                /\ \A i \in (at + 1)..(at + UsizeSize) : appended[i] = 0
                /\ \A i \in 1..Len(appended) :
                      (i <= at \/ i > at + UsizeSize) => payload'[i] = appended[i]
                /\ \E i \in (at + 1)..(at + UsizeSize) : payload'[i] # appended[i]
      ]_vars

C17_Witness ==
    /\ mainPc = "build"
    /\ ops = <<ItemOp(Rect(RectA), 0), ListOp(MixedList, EncodedSize(Rect(RectA)))>>
    /\ payload = PushListBytes(PushItemBytes(<<>>, Rect(RectA)), MixedList)
    /\ payload # PushIterAppend(PushItemBytes(PushItemBytes(<<>>, Rect(RectA)), List), MixedList)

\* Where process stands, and what it has left to do from there: the bytes
\* left in the iterator's view, then the position in the loop body, then the
\* count left in the inner loop.
DecodeMeasure ==
    <<SliceLen(iterData),
      CASE backendPc = "size" -> 2 [] backendPc = "walk" -> 1 [] OTHER -> 0,
      size>>

LexLess(a, b) ==
    \/ a[1] < b[1]
    \/ a[1] = b[1] /\ a[2] < b[2]
    \/ a[1] = b[1] /\ a[2] = b[2] /\ a[3] < b[3]

\* C18: while process runs, the iterator's view is a suffix of the display
\* list's bytes; a call of next_payload_as_item that returns an item leaves
\* a strictly shorter suffix; a call that returns None leaves the view as it
\* was, so that any further call would return None on the same view; and
\* every step of process that does not end it (by returning or by a panic)
\* strictly lowers a measure that is bounded below, so every run of process
\* over a sealed display list ends.
C18_DecoderProgress ==
    /\ []((Decoding \/ backendPc = "send") =>
            (0 <= iterData.lo /\ iterData.lo <= iterData.hi /\ iterData.hi = Len(dl)))
    /\ [][(backendPc = "next" /\ observed' # observed) =>
            /\ iterData'.hi = iterData.hi
            /\ iterData'.lo > iterData.lo
            /\ SliceLen(iterData') < SliceLen(iterData)]_vars
    /\ [][(backendPc = "next" /\ backendPc' = "send") =>
            /\ observed' = observed
            /\ iterData' = iterData
            /\ ~NextPayloadAsItem(dl', iterData').some
            /\ ~NextPayloadAsItem(dl', iterData').panic
            /\ NextPayloadAsItem(dl', iterData').rest = iterData']_vars
    /\ [](Decoding => (SliceLen(iterData) >= 0 /\ size >= 0))
    /\ [][(Decoding /\ Decoding') => LexLess(DecodeMeasure', DecodeMeasure)]_vars

C18_Witness ==
    /\ backendPc = "send"
    /\ Len(TopOnly(observed)) = 3
    /\ iterData.lo > 0
    /\ iterData = Slice(Len(dl) - MaxSize, Len(dl))
    /\ WellFormed(dlOps)

\* Close is in the work channel.
CloseSent == \E i \in DOMAIN sender : sender[i].kind = "Close"

\* The display list main waits for has its List markers from push_list only.
InFlightWellFormed ==
    /\ WellFormed(dlOps)
    /\ \A i \in Waiting : WellFormed(sender[i].ops)

\* main waits for a result and the backend waits for a message.
BothWaiting ==
    /\ mainPc = "wait" /\ results = <<>>
    /\ backendPc = "recv" /\ sender = <<>>

\* C19: under fair scheduling of both threads, main, once it has sent a
\* display list built with push_item of records and push_list, eventually
\* receives its result; once Close has been sent the backend eventually
\* breaks out of its loop; and in no reachable state main waits for a result
\* while the backend waits for a message.
C19_PipelineLiveness ==
    /\ (mainPc = "wait" /\ InFlightWellFormed) ~> (mainPc = "idle")
    /\ CloseSent ~> (backendPc = "exited")
    /\ [](~BothWaiting)

\* What does hold of the pipeline: the result arrives, nobody waits for the
\* other forever, and after Close the backend leaves its loop unless the
\* process ends first.
C19_LivenessUntilExit ==
    /\ (mainPc = "wait" /\ InFlightWellFormed) ~> (mainPc = "idle")
    /\ CloseSent ~> (backendPc \in {"exited", "killed"})
    /\ [](~BothWaiting)

\* The process has ended with Close unread in the work channel.
C19_ClosedUnread ==
    /\ mainPc = "done"
    /\ backendPc = "killed"
    /\ submitted = 1
    /\ sender = <<Close>>

====
